---- MODULE Spec2Model ----
(***************************************************************************)
(* Model of the HTML -> PDF conversion utilities:                          *)
(*   generate_pdfs.py          (wrapper CLI)                               *)
(*   Modules/pdf_generator.py  (module CLI, convert_html_to_pdf_async,     *)
(*                              batch_convert_directory_async)             *)
(* One behaviour is one invocation of one of the two CLI entry points.     *)
(* The rendering collaborator (Playwright) is an environment whose awaited *)
(* calls either return or raise.                                           *)
(*                                                                         *)
(* A file name is the sequence of its dot-separated parts                  *)
(* ("Report.HTML" is <<"Report", "HTML">>); a path is a sequence of names. *)
(***************************************************************************)
EXTENDS Naturals, Integers, Sequences, FiniteSets, TLC

\* ------------------------------------------------------------------ bounds
\* Largest number of entries in the input directory.
MaxDirEntries == 3

\* ------------------------------------------------------ names and paths
None == <<>>

\* File names a directory entry or a single-file input may have.
NamePool == << <<"a", "html">>, <<"b", "v2", "html">>, <<"c", "html">>,
               <<"Report", "HTML">>, <<"notes", "txt">> >>

TopDir == << <<"maps">> >>
InputDir == Append(TopDir, <<"Individual">>)
MissingPath == Append(TopDir, <<"nosuch">>)
OutputArg == << <<"X">> >>

\* str.lower() on the strings that occur in names.
Lower(s) ==
    CASE s = "HTML" -> "html"
      [] s = "Html" -> "html"
      [] s = "Report" -> "report"
      [] s = "PDF" -> "pdf"
      [] s = "X" -> "x"
      [] OTHER -> s

\* PurePath.suffix: the text after the last dot, when that dot is neither
\* the first nor the last character of the name ("" when there is none).
HasSuffix(name) ==
    /\ Len(name) >= 2
    /\ name[Len(name)] # ""
    /\ ~(Len(name) = 2 /\ name[1] = "")

suffix(name) == IF HasSuffix(name) THEN name[Len(name)] ELSE ""

\* PurePath.stem: the name without its suffix.
stem(name) == IF HasSuffix(name) THEN SubSeq(name, 1, Len(name) - 1) ELSE name

\* PurePath.with_suffix('.pdf') applied to the last component of a path.
with_suffix(path, s) ==
    Append(SubSeq(path, 1, Len(path) - 1), Append(stem(path[Len(path)]), s))

parent(path) == SubSeq(path, 1, Len(path) - 1)

\* Path.mkdir(parents=True, exist_ok=True)
mkdir(ds, path) == ds \cup { SubSeq(path, 1, k) : k \in 1..Len(path) }

\* Path.glob("*.html") on one name: the pattern is matched case-sensitively
\* on POSIX and case-insensitively on Windows.
GlobMatch(name, caseInsensitive) ==
    /\ Len(name) >= 2
    /\ (IF caseInsensitive THEN Lower(name[Len(name)]) ELSE name[Len(name)]) = "html"

RECURSIVE Glob(_, _)
Glob(entries, caseInsensitive) ==
    IF entries = <<>> THEN <<>>
    ELSE LET rest == Glob(Tail(entries), caseInsensitive)
         IN  IF GlobMatch(Head(entries), caseInsensitive)
             THEN <<Head(entries)>> \o rest
             ELSE rest

\* Directory listings: the sub-sequences of NamePool with at most
\* MaxDirEntries entries (scandir order is fixed for one run).
RECURSIVE Pick(_, _)
Pick(pool, keep) ==
    IF pool = <<>> THEN <<>>
    ELSE IF Len(pool) \in keep
         THEN <<Head(pool)>> \o Pick(Tail(pool), keep)
         ELSE Pick(Tail(pool), keep)

Listings ==
    { Pick(NamePool, keep) : keep \in
        { k \in SUBSET (1..Len(NamePool)) : Cardinality(k) <= MaxDirEntries } }


\* ------------------------------------------------------------------ state
VARIABLES
    cli,                  \* which entry point runs: "generate_pdfs" | "pdf_generator"
    args,                 \* argparse result: [input, output, check]
    PLAYWRIGHT_AVAILABLE, \* pdf_generator.py:14-18
    caseInsensitiveGlob,  \* platform: does Path.glob ignore letter case
    listing,              \* entries of InputDir, in scandir order
    dirs,                 \* directories that exist
    files,                \* regular files that exist
    pc,                   \* position of the (single-threaded) program
    exitCode,             \* process exit status, meaningful when pc = "exited"
    printed,              \* kinds of message written to stdout
    call,                 \* arguments of the conversion function being run
    pdf_path,             \* convert: pdf_path / batch: pdf_output_path
    html_files,           \* batch: list(html_path.glob("*.html"))
    idx,                  \* batch: position of the for loop in html_files
    generated_pdfs,       \* batch: the list being built
    result,               \* value returned by the conversion function
    browser,              \* "none" | "open" | "closed" | "killed"
    pages,                \* indices of the requests whose page is open
    trace,                \* collaborator calls made so far, in order
    written,              \* files page.pdf has written in this run
    outcomes              \* per-file outcome lines printed so far, in order

vars == << cli, args, PLAYWRIGHT_AVAILABLE, caseInsensitiveGlob, listing, dirs,
           files, pc, exitCode, printed, call, pdf_path, html_files, idx,
           generated_pdfs, result, browser, pages, trace, written, outcomes >>

inputs == << cli, args, PLAYWRIGHT_AVAILABLE, caseInsensitiveGlob, listing >>

exists(path) == path \in dirs \/ path \in files
is_file(path) == path \in files
is_dir(path) == path \in dirs

InputChoices ==
    {None, MissingPath, InputDir} \cup { Append(TopDir, NamePool[k]) : k \in 1..Len(NamePool) }

\* PDFs an earlier run may have left at the places a run can write to
StalePdfs ==
    { Append(d, Append(SubSeq(NamePool[k], 1, Len(NamePool[k]) - 1), "pdf")) :
        d \in {TopDir, Append(TopDir, <<"PDF">>), OutputArg},
        k \in 1..Len(NamePool) }

\* the state after argument parsing, with the files in old already there
InitWith(old) ==
    /\ cli \in {"generate_pdfs", "pdf_generator"}
    /\ args \in [input : InputChoices, output : {None, OutputArg}, check : BOOLEAN]
    /\ PLAYWRIGHT_AVAILABLE \in BOOLEAN
    /\ caseInsensitiveGlob \in BOOLEAN
    /\ listing \in Listings
    \* only a directory input has a listing worth distinguishing
    /\ (args.input # InputDir => listing = <<>>)
    /\ dirs = {<<>>, TopDir} \cup (IF args.input = InputDir THEN {InputDir} ELSE {})
              \cup { parent(f) : f \in old }
    /\ files = (IF args.input \in {None, MissingPath, InputDir} THEN {} ELSE {args.input})
               \cup { Append(InputDir, listing[k]) : k \in 1..Len(listing) }
               \cup old
    /\ pc = "main"
    /\ exitCode = 0
    /\ printed = {}
    /\ call = [input |-> None, output |-> None]
    /\ pdf_path = None
    /\ html_files = <<>>
    /\ idx = 1
    /\ generated_pdfs = <<>>
    /\ result = <<>>
    /\ browser = "none"
    /\ pages = {}
    /\ trace = <<>>
    /\ written = {}
    /\ outcomes = <<>>

\* a run in a tree that holds no PDF yet
Init == InitWith({})

\* a run in a tree where an earlier run left its PDFs
InitStale == InitWith(StalePdfs)

\* sys.exit(code), also the status of a process ended by an uncaught exception
Exit(code) == pc' = "exited" /\ exitCode' = code

Say(msgs) == printed' = printed \cup msgs

Called(op, i, ok, path) == [op |-> op, i |-> i, ok |-> ok, path |-> path]

\* check_playwright(): what it prints (its result is PLAYWRIGHT_AVAILABLE)
check_playwright_msgs ==
    IF PLAYWRIGHT_AVAILABLE THEN {"PlaywrightAvailable"} ELSE {"InstallInstructions"}


\* ------------------------------------------- decisions made by the code
\* An exit decision is <<>> (go on), <<0>> or <<1>> (sys.exit with that code).

\* generate_pdfs.py main, "Check prerequisites" block
GenPrereq(check, hasInput, available) ==
    IF check \/ ~hasInput
    THEN IF available
         THEN IF ~hasInput THEN <<0>> ELSE <<>>
         ELSE <<1>>
    ELSE <<>>

\* PgPrereq with --check-deps handled the way generate_pdfs.py handles --check
PgPrereqLikeGen(check_deps, hasInput, available) ==
    IF check_deps /\ available /\ hasInput
    THEN <<>>
    ELSE IF check_deps
    THEN IF available THEN <<0>> ELSE <<1>>
    ELSE IF ~hasInput THEN <<1>>
    ELSE IF ~available THEN <<1>>
    ELSE <<>>

\* pdf_generator.py main, --check-deps block, input check, Playwright check
PgPrereq(check_deps, hasInput, available) ==
    IF check_deps
    THEN IF available THEN <<0>> ELSE <<1>>
    ELSE IF ~hasInput THEN <<1>>
    ELSE IF ~available THEN <<1>>
    ELSE <<>>

\* GenInputCheck without the existence test
GenInputCheckSkipped(inputExists) == <<>>

\* generate_pdfs.py main, "if not input_path.exists()"
GenInputCheck(inputExists) == IF ~inputExists THEN <<1>> ELSE <<>>

\* generate_pdfs.py main, "Determine output directory"
GenOutputDir(output, input_path) ==
    IF output # None
    THEN output
    ELSE IF is_file(input_path)
         THEN Append(parent(input_path), <<"PDF">>)
         ELSE Append(parent(input_path), <<"PDF">>)

\* both mains: the single-file branch is taken for a regular file whose
\* suffix is .html in any letter case
IsHtmlFile(input_path) ==
    is_file(input_path) /\ Lower(suffix(input_path[Len(input_path)])) = "html"

\* generate_pdfs.py main: exit status after convert_html_to_pdf returned
GenSingleExit(pdf_file) == IF pdf_file # None THEN 0 ELSE 1

\* generate_pdfs.py main: exit status after batch_convert_directory returned
GenBatchExit(generated) == IF generated # <<>> THEN 0 ELSE 1

\* pdf_generator.py main: exit status after convert_html_to_pdf returned
PgSingleExit(pdf_file) == IF pdf_file # None THEN 0 ELSE 1

\* pdf_generator.py main: the directory branch never calls sys.exit
PgBatchExit(generated) == 0

\* ConvertPdfPath taking no notice of output_dir
ConvertPdfPathBesideSource(html_file, output_dir) == with_suffix(html_file, "pdf")

\* convert_html_to_pdf_async, "Determine output path"
ConvertPdfPath(html_file, output_dir) ==
    IF output_dir # None
    THEN Append(output_dir, Append(stem(html_file[Len(html_file)]), "pdf"))
    ELSE with_suffix(html_file, "pdf")

\* batch_convert_directory_async, "Set up PDF output directory"
BatchPdfDir(html_dir, pdf_dir) ==
    IF pdf_dir = None THEN Append(parent(html_dir), <<"PDF">>) ELSE pdf_dir

\* BatchPdfOutputPath built from the whole name instead of the stem
BatchPdfOutputPathFromName(pdf_dir, html_file) ==
    Append(pdf_dir, Append(html_file[Len(html_file)], "pdf"))

\* batch_convert_directory_async, "Determine output path"
BatchPdfOutputPath(pdf_dir, html_file) ==
    Append(pdf_dir, Append(stem(html_file[Len(html_file)]), "pdf"))

\* batch_convert_directory_async: list(html_path.glob("*.html"))
GlobHtml(html_dir, entries, caseInsensitive) ==
    LET names == Glob(entries, caseInsensitive)
    IN  [k \in 1..Len(names) |-> Append(html_dir, names[k])]

\* Verified without the existence test
VerifiedUnchecked(path, fileExists) == <<path>>

\* both conversion functions: the list entry made for a finished request,
\* "if pdf_path.exists(): ... append / return str(pdf_path)"
Verified(path, fileExists) == IF fileExists THEN <<path>> ELSE <<>>

\* AfterException with the try/except around the loop: the loop is over
AfterExceptionAbort(i, n) == n + 1

\* batch_convert_directory_async: the try/except is inside the for loop, so
\* the loop goes on with the next file after the except clause
AfterException(i, n) == i + 1

\* ----------------------------------------------------- generate_pdfs.py
Gen_Prereq ==
    /\ pc = "main"
    /\ cli = "generate_pdfs"
    /\ LET d == GenPrereq(args.check, args.input # None, PLAYWRIGHT_AVAILABLE)
       IN  /\ IF args.check \/ args.input = None
              THEN Say(check_playwright_msgs)
              ELSE Say({})
           /\ IF d = <<>>
              THEN pc' = "gen_validate" /\ UNCHANGED exitCode
              ELSE Exit(d[1])
    /\ UNCHANGED << inputs, written, dirs, files, call, pdf_path, html_files, idx,
                    generated_pdfs, result, browser, pages, trace, outcomes >>

\* "Validate input" up to "Create output directory"
Gen_Validate ==
    /\ pc = "gen_validate"
    /\ IF args.input = None
       THEN /\ Say({"Help"})
            /\ Exit(1)
            /\ UNCHANGED << dirs, call >>
       ELSE IF GenInputCheck(exists(args.input)) # <<>>
       THEN /\ Say({"InputNotFound"})
            /\ Exit(GenInputCheck(exists(args.input))[1])
            /\ UNCHANGED << dirs, call >>
       ELSE LET output_dir == GenOutputDir(args.output, args.input)
            IN  /\ dirs' = mkdir(dirs, output_dir)
                /\ call' = [input |-> args.input, output |-> output_dir]
                /\ pc' = "gen_dispatch"
                /\ UNCHANGED << exitCode, printed >>
    /\ UNCHANGED << inputs, written, files, pdf_path, html_files, idx, generated_pdfs,
                    result, browser, pages, trace, outcomes >>

\* the if / elif / else of the try block
Gen_Dispatch ==
    /\ pc = "gen_dispatch"
    /\ IF IsHtmlFile(args.input)
       THEN pc' = "conv_setup" /\ UNCHANGED << exitCode, printed >>
       ELSE IF is_dir(args.input)
       THEN pc' = "batch_setup" /\ UNCHANGED << exitCode, printed >>
       ELSE Say({"InvalidInput"}) /\ Exit(1)
    /\ UNCHANGED << inputs, written, dirs, files, call, pdf_path, html_files, idx,
                    generated_pdfs, result, browser, pages, trace, outcomes >>

\* what main does with the value returned, or with the exception raised
Gen_Finish ==
    /\ cli = "generate_pdfs"
    /\ \/ /\ pc = "conv_returned"
          /\ Say(IF result # None THEN {"Generated"} ELSE {"GenerationFailed"})
          /\ Exit(GenSingleExit(result))
       \/ /\ pc = "batch_returned"
          /\ Say(IF result # <<>> THEN {"GenerationComplete"} ELSE {"NoPdfsGenerated"})
          /\ Exit(GenBatchExit(result))
       \/ /\ pc = "raised"
          /\ Say({"ErrorDuringGeneration"})
          /\ Exit(1)
    /\ UNCHANGED << inputs, written, dirs, files, call, pdf_path, html_files, idx,
                    generated_pdfs, result, browser, pages, trace, outcomes >>

\* ------------------------------------------------ pdf_generator.py main
Pg_Prereq ==
    /\ pc = "main"
    /\ cli = "pdf_generator"
    /\ LET d == PgPrereq(args.check, args.input # None, PLAYWRIGHT_AVAILABLE)
       IN  /\ IF args.check
              THEN Say(check_playwright_msgs)
              ELSE IF args.input = None
              THEN Say({"InputRequired", "Help"})
              ELSE Say(check_playwright_msgs)
           /\ IF d = <<>>
              THEN pc' = "pg_dispatch" /\ UNCHANGED exitCode
              ELSE Exit(d[1])
    /\ UNCHANGED << inputs, written, dirs, files, call, pdf_path, html_files, idx,
                    generated_pdfs, result, browser, pages, trace, outcomes >>

Pg_Dispatch ==
    /\ pc = "pg_dispatch"
    /\ IF IsHtmlFile(args.input)
       THEN /\ pc' = "conv_setup"
            /\ call' = [input |-> args.input, output |-> args.output]
            /\ UNCHANGED << exitCode, printed >>
       ELSE IF is_dir(args.input)
       THEN /\ pc' = "batch_setup"
            /\ call' = [input |-> args.input, output |-> args.output]
            /\ UNCHANGED << exitCode, printed >>
       ELSE /\ Say({"InvalidInput"})
            /\ Exit(1)
            /\ UNCHANGED call
    /\ UNCHANGED << inputs, written, dirs, files, pdf_path, html_files, idx,
                    generated_pdfs, result, browser, pages, trace, outcomes >>

Pg_Finish ==
    /\ cli = "pdf_generator"
    /\ \/ /\ pc = "conv_returned"
          /\ Say(IF result # None THEN {"ConversionDone"} ELSE {"ConversionFailed"})
          /\ Exit(PgSingleExit(result))
       \/ /\ pc = "batch_returned"
          /\ Say({"ConversionComplete"})
          /\ Exit(PgBatchExit(result))
       \/ /\ pc = "raised"
          /\ Say({"Traceback"})
          /\ Exit(1)
    /\ UNCHANGED << inputs, written, dirs, files, call, pdf_path, html_files, idx,
                    generated_pdfs, result, browser, pages, trace, outcomes >>


\* ------------------------------------------- convert_html_to_pdf_async
\* Leaving "async with async_playwright()" stops the driver; a browser that
\* is still open goes down with it, without browser.close() being called.
Stopped(b) == IF b = "open" THEN "killed" ELSE b

\* An exception inside the try block: the context is left, the except
\* clause prints the error and the function returns None.
ConvExcept(entries, entered) ==
    /\ trace' = trace \o entries \o
                (IF entered THEN <<Called("stop", 1, TRUE, None)>> ELSE <<>>)
    /\ browser' = Stopped(browser)
    /\ pages' = {}
    /\ outcomes' = Append(outcomes, [file |-> call.input, outcome |-> "Failure"])
    /\ Say({"GenerationError"})
    /\ result' = None
    /\ pc' = "conv_returned"

\* existence check, output path, mkdir
Conv_Setup ==
    /\ pc = "conv_setup"
    /\ IF ~exists(call.input)
       THEN /\ Say({"HtmlFileNotFound"})
            /\ result' = None
            /\ pc' = "conv_returned"
            /\ UNCHANGED << pdf_path, dirs >>
       ELSE /\ pdf_path' = ConvertPdfPath(call.input, call.output)
            /\ dirs' = mkdir(dirs, parent(pdf_path'))
            /\ pc' = "conv_launch"
            /\ UNCHANGED << printed, result >>
    /\ UNCHANGED << inputs, written, files, exitCode, call, html_files, idx,
                    generated_pdfs, browser, pages, trace, outcomes >>

\* async with async_playwright() as p: browser = await p.chromium.launch()
Conv_Launch ==
    /\ pc = "conv_launch"
    /\ IF ~PLAYWRIGHT_AVAILABLE
       THEN \* the name async_playwright is not defined: NameError
            ConvExcept(<<>>, FALSE)
       ELSE \E ok \in BOOLEAN :
            IF ok
            THEN /\ browser' = "open"
                 /\ trace' = Append(trace, Called("launch", 1, TRUE, None))
                 /\ pc' = "conv_new_page"
                 /\ UNCHANGED << pages, outcomes, printed, result >>
            ELSE ConvExcept(<<Called("launch", 1, FALSE, None)>>, TRUE)
    /\ UNCHANGED << inputs, written, dirs, files, exitCode, call, pdf_path, html_files,
                    idx, generated_pdfs >>

Conv_NewPage ==
    /\ pc = "conv_new_page"
    /\ \E ok \in BOOLEAN :
         IF ok
         THEN /\ pages' = pages \cup {1}
              /\ trace' = Append(trace, Called("new_page", 1, TRUE, None))
              /\ pc' = "conv_goto"
              /\ UNCHANGED << browser, outcomes, printed, result >>
         ELSE ConvExcept(<<Called("new_page", 1, FALSE, None)>>, TRUE)
    /\ UNCHANGED << inputs, written, dirs, files, exitCode, call, pdf_path, html_files,
                    idx, generated_pdfs >>

Conv_Goto ==
    /\ pc = "conv_goto"
    /\ \E ok \in BOOLEAN :
         IF ok
         THEN /\ trace' = Append(trace, Called("goto", 1, TRUE, call.input))
              /\ pc' = "conv_wait"
              /\ UNCHANGED << browser, pages, outcomes, printed, result >>
         ELSE ConvExcept(<<Called("goto", 1, FALSE, call.input)>>, TRUE)
    /\ UNCHANGED << inputs, written, dirs, files, exitCode, call, pdf_path, html_files,
                    idx, generated_pdfs >>

Conv_Wait ==
    /\ pc = "conv_wait"
    /\ \E ok \in BOOLEAN :
         IF ok
         THEN /\ trace' = Append(trace, Called("wait_for_timeout", 1, TRUE, None))
              /\ pc' = "conv_pdf"
              /\ UNCHANGED << browser, pages, outcomes, printed, result >>
         ELSE ConvExcept(<<Called("wait_for_timeout", 1, FALSE, None)>>, TRUE)
    /\ UNCHANGED << inputs, written, dirs, files, exitCode, call, pdf_path, html_files,
                    idx, generated_pdfs >>

\* await page.pdf(path=str(pdf_path), ...): it writes the file, or returns
\* without having written one, or raises
Conv_Pdf ==
    /\ pc = "conv_pdf"
    /\ \E how \in {"written", "nooutput", "raise"} :
         IF how = "raise"
         THEN /\ ConvExcept(<<Called("pdf", 1, FALSE, pdf_path)>>, TRUE)
              /\ UNCHANGED << files, written >>
         ELSE /\ files' = IF how = "written" THEN files \cup {pdf_path} ELSE files
              /\ written' = IF how = "written" THEN written \cup {pdf_path} ELSE written
              /\ trace' = Append(trace, Called("pdf", 1, TRUE, pdf_path))
              /\ pc' = "conv_close"
              /\ UNCHANGED << browser, pages, outcomes, printed, result >>
    /\ UNCHANGED << inputs, dirs, exitCode, call, pdf_path, html_files, idx,
                    generated_pdfs >>

\* await browser.close(), end of the async with block, then the
\* "if pdf_path.exists()" check
Conv_Close ==
    /\ pc = "conv_close"
    /\ \E ok \in BOOLEAN :
         IF ok
         THEN LET v == Verified(pdf_path, exists(pdf_path))
              IN  /\ browser' = "closed"
                  /\ pages' = {}
                  /\ trace' = trace \o << Called("browser.close", 1, TRUE, None),
                                          Called("stop", 1, TRUE, None) >>
                  /\ outcomes' = Append(outcomes,
                        [file |-> call.input,
                         outcome |-> IF v # <<>> THEN "Success" ELSE "Failure"])
                  /\ Say(IF v # <<>> THEN {"GeneratedPdf"} ELSE {"GenerationFailedFor"})
                  /\ result' = IF v # <<>> THEN v[1] ELSE None
                  /\ pc' = "conv_returned"
         ELSE ConvExcept(<<Called("browser.close", 1, FALSE, None)>>, TRUE)
    /\ UNCHANGED << inputs, written, dirs, files, exitCode, call, pdf_path, html_files,
                    idx, generated_pdfs >>


\* --------------------------------------- batch_convert_directory_async
\* where the for loop goes once the body is done with request i
LoopTo(j) ==
    /\ idx' = j
    /\ pc' = IF j > Len(html_files) THEN "batch_browser_close" ELSE "batch_new_page"

\* "except Exception as e": the error is printed and the loop goes on; the
\* page of the request is left as it is
BatchExcept(entry) ==
    /\ trace' = Append(trace, entry)
    /\ outcomes' = Append(outcomes, [file |-> html_files[idx], outcome |-> "Failure"])
    /\ Say({"ErrorConverting"})
    /\ LoopTo(AfterException(idx, Len(html_files)))

\* existence check, output directory, mkdir, glob
Batch_Setup ==
    /\ pc = "batch_setup"
    /\ IF ~exists(call.input)
       THEN /\ Say({"HtmlDirNotFound"})
            /\ result' = <<>>
            /\ pc' = "batch_returned"
            /\ UNCHANGED << dirs, call, html_files >>
       ELSE LET pdf_dir == BatchPdfDir(call.input, call.output)
                found == GlobHtml(call.input, listing, caseInsensitiveGlob)
            IN  /\ dirs' = mkdir(dirs, pdf_dir)
                /\ call' = [call EXCEPT !.output = pdf_dir]
                /\ IF found = <<>>
                   THEN /\ Say({"NoHtmlFiles"})
                        /\ result' = <<>>
                        /\ pc' = "batch_returned"
                        /\ UNCHANGED html_files
                   ELSE /\ Say({"Converting"})
                        /\ html_files' = found
                        /\ pc' = "batch_launch"
                        /\ UNCHANGED result
    /\ UNCHANGED << inputs, written, files, exitCode, pdf_path, idx, generated_pdfs,
                    browser, pages, trace, outcomes >>

\* async with async_playwright() as p: browser = await p.chromium.launch()
\* (outside every try block: an exception leaves the function)
Batch_Launch ==
    /\ pc = "batch_launch"
    /\ IF ~PLAYWRIGHT_AVAILABLE
       THEN \* the name async_playwright is not defined: NameError
            pc' = "raised" /\ UNCHANGED << browser, trace >>
       ELSE \E ok \in BOOLEAN :
            IF ok
            THEN /\ browser' = "open"
                 /\ trace' = Append(trace, Called("launch", 0, TRUE, None))
                 /\ pc' = "batch_new_page"
            ELSE /\ trace' = trace \o << Called("launch", 0, FALSE, None),
                                         Called("stop", 0, TRUE, None) >>
                 /\ pc' = "raised"
                 /\ UNCHANGED browser
    /\ UNCHANGED << inputs, written, dirs, files, exitCode, printed, call, pdf_path,
                    html_files, idx, generated_pdfs, result, pages, outcomes >>

\* page = await browser.new_page(); pdf_output_path = ...
Batch_NewPage ==
    /\ pc = "batch_new_page"
    /\ \E ok \in BOOLEAN :
         IF ok
         THEN /\ pages' = pages \cup {idx}
              /\ pdf_path' = BatchPdfOutputPath(call.output, html_files[idx])
              /\ trace' = Append(trace, Called("new_page", idx, TRUE, None))
              /\ pc' = "batch_goto"
              /\ UNCHANGED << idx, outcomes, printed >>
         ELSE /\ BatchExcept(Called("new_page", idx, FALSE, None))
              /\ UNCHANGED << pages, pdf_path >>
    /\ UNCHANGED << inputs, written, dirs, files, exitCode, call, html_files,
                    generated_pdfs, result, browser >>

Batch_Goto ==
    /\ pc = "batch_goto"
    /\ \E ok \in BOOLEAN :
         IF ok
         THEN /\ trace' = Append(trace, Called("goto", idx, TRUE, html_files[idx]))
              /\ pc' = "batch_wait"
              /\ UNCHANGED << idx, outcomes, printed >>
         ELSE BatchExcept(Called("goto", idx, FALSE, html_files[idx]))
    /\ UNCHANGED << inputs, written, dirs, files, exitCode, call, pdf_path, html_files,
                    generated_pdfs, result, browser, pages >>

Batch_Wait ==
    /\ pc = "batch_wait"
    /\ \E ok \in BOOLEAN :
         IF ok
         THEN /\ trace' = Append(trace, Called("wait_for_timeout", idx, TRUE, None))
              /\ pc' = "batch_pdf"
              /\ UNCHANGED << idx, outcomes, printed >>
         ELSE BatchExcept(Called("wait_for_timeout", idx, FALSE, None))
    /\ UNCHANGED << inputs, written, dirs, files, exitCode, call, pdf_path, html_files,
                    generated_pdfs, result, browser, pages >>

\* await page.pdf(path=str(pdf_output_path), ...)
Batch_Pdf ==
    /\ pc = "batch_pdf"
    /\ \E how \in {"written", "nooutput", "raise"} :
         IF how = "raise"
         THEN /\ BatchExcept(Called("pdf", idx, FALSE, pdf_path))
              /\ UNCHANGED << files, written >>
         ELSE /\ files' = IF how = "written" THEN files \cup {pdf_path} ELSE files
              /\ written' = IF how = "written" THEN written \cup {pdf_path} ELSE written
              /\ trace' = Append(trace, Called("pdf", idx, TRUE, pdf_path))
              /\ pc' = "batch_page_close"
              /\ UNCHANGED << idx, outcomes, printed >>
    /\ UNCHANGED << inputs, dirs, exitCode, call, pdf_path, html_files,
                    generated_pdfs, result, browser, pages >>

\* await page.close(), then the "if pdf_output_path.exists()" check
Batch_PageClose ==
    /\ pc = "batch_page_close"
    /\ \E ok \in BOOLEAN :
         IF ok
         THEN LET v == Verified(pdf_path, exists(pdf_path))
              IN  /\ pages' = pages \ {idx}
                  /\ trace' = Append(trace, Called("page.close", idx, TRUE, None))
                  /\ generated_pdfs' = generated_pdfs \o v
                  /\ outcomes' = Append(outcomes,
                        [file |-> html_files[idx],
                         outcome |-> IF v # <<>> THEN "Success" ELSE "Failure"])
                  /\ Say(IF v # <<>> THEN {"GeneratedPdf"} ELSE {"FailedToGenerate"})
                  /\ LoopTo(idx + 1)
         ELSE \* whether a page whose close() raised is gone is not known
              /\ \E gone \in BOOLEAN :
                   pages' = IF gone THEN pages \ {idx} ELSE pages
              /\ BatchExcept(Called("page.close", idx, FALSE, None))
              /\ UNCHANGED generated_pdfs
    /\ UNCHANGED << inputs, written, dirs, files, exitCode, call, pdf_path, html_files,
                    result, browser >>

\* await browser.close(), end of the async with block, return generated_pdfs
Batch_BrowserClose ==
    /\ pc = "batch_browser_close"
    /\ \E ok \in BOOLEAN :
         IF ok
         THEN /\ browser' = "closed"
              /\ trace' = trace \o << Called("browser.close", 0, TRUE, None),
                                      Called("stop", 0, TRUE, None) >>
              /\ result' = generated_pdfs
              /\ pc' = "batch_returned"
         ELSE /\ browser' = Stopped(browser)
              /\ trace' = trace \o << Called("browser.close", 0, FALSE, None),
                                      Called("stop", 0, TRUE, None) >>
              /\ pc' = "raised"
              /\ UNCHANGED result
    /\ pages' = {}
    /\ UNCHANGED << inputs, written, dirs, files, exitCode, printed, call, pdf_path,
                    html_files, idx, generated_pdfs, outcomes >>

\* ------------------------------------------------------- specification
Next ==
    \/ Gen_Prereq
    \/ Gen_Validate
    \/ Gen_Dispatch
    \/ Gen_Finish
    \/ Pg_Prereq
    \/ Pg_Dispatch
    \/ Pg_Finish
    \/ Conv_Setup
    \/ Conv_Launch
    \/ Conv_NewPage
    \/ Conv_Goto
    \/ Conv_Wait
    \/ Conv_Pdf
    \/ Conv_Close
    \/ Batch_Setup
    \/ Batch_Launch
    \/ Batch_NewPage
    \/ Batch_Goto
    \/ Batch_Wait
    \/ Batch_Pdf
    \/ Batch_PageClose
    \/ Batch_BrowserClose

Spec == Init /\ [][Next]_vars

\* the same program, started where an earlier run has left its PDFs
SpecStale == InitStale /\ [][Next]_vars


\* ------------------------------------------------- KeyboardInterrupt
\* positions inside asyncio.run(convert_html_to_pdf_async / batch_..._async)
InConversion ==
    pc \in { "conv_setup", "conv_launch", "conv_new_page", "conv_goto",
             "conv_wait", "conv_pdf", "conv_close",
             "batch_setup", "batch_launch", "batch_new_page", "batch_goto",
             "batch_wait", "batch_pdf", "batch_page_close", "batch_browser_close" }

\* the statements inside the try block of the batch loop
InBatchTry ==
    pc \in { "batch_new_page", "batch_goto", "batch_wait", "batch_pdf",
             "batch_page_close" }

\* CaughtByExcept for a bare "except:" clause
CaughtByBareExcept(exc) == TRUE

\* "except Exception as e": KeyboardInterrupt derives from BaseException,
\* not from Exception, and is not caught
CaughtByExcept(exc) == exc # "KeyboardInterrupt"

\* SIGINT while a conversion function runs.  No "except Exception" clause of
\* the conversion functions catches the KeyboardInterrupt, so it leaves the
\* loop and the async with block (which stops the driver when a browser was
\* launched) and comes out of asyncio.run.
Interrupt ==
    /\ InConversion
    /\ IF InBatchTry /\ CaughtByExcept("KeyboardInterrupt")
       THEN /\ BatchExcept(Called("KeyboardInterrupt", 0, TRUE, None))
            /\ UNCHANGED << browser, pages >>
       ELSE /\ trace' = trace \o <<Called("KeyboardInterrupt", 0, TRUE, None)>> \o
                        (IF browser = "open"
                         THEN <<Called("stop", 0, TRUE, None)>> ELSE <<>>)
            /\ browser' = Stopped(browser)
            /\ pages' = {}
            /\ pc' = "interrupted"
            /\ UNCHANGED << idx, printed, outcomes >>
    /\ UNCHANGED << inputs, written, dirs, files, exitCode, call, pdf_path,
                    html_files, generated_pdfs, result >>

\* generate_pdfs.py main: "except KeyboardInterrupt" prints and exits 1
Gen_Interrupted ==
    /\ cli = "generate_pdfs"
    /\ pc = "interrupted"
    /\ Say({"InterruptedByUser"})
    /\ Exit(1)
    /\ UNCHANGED << inputs, written, dirs, files, call, pdf_path, html_files,
                    idx, generated_pdfs, result, browser, pages, trace, outcomes >>

\* pdf_generator.py main has no handler: the KeyboardInterrupt is uncaught,
\* the interpreter prints the traceback and ends the process by SIGINT
\* (status 128 + 2), not by exit code 1
Pg_Interrupted ==
    /\ cli = "pdf_generator"
    /\ pc = "interrupted"
    /\ Say({"KeyboardInterruptTraceback"})
    /\ Exit(130)
    /\ UNCHANGED << inputs, written, dirs, files, call, pdf_path, html_files,
                    idx, generated_pdfs, result, browser, pages, trace, outcomes >>

NextInterrupt ==
    \/ Next
    \/ Interrupt
    \/ Gen_Interrupted
    \/ Pg_Interrupted

\* the same program, with an interrupt possible while it converts
SpecInterrupt == Init /\ [][NextInterrupt]_vars

\* ============================================================== claims
Range(s) == { s[k] : k \in 1..Len(s) }

Exited == pc = "exited"

\* the invocation ran batch_convert_directory_async up to the glob
BatchResolved == "Converting" \in printed \/ "NoHtmlFiles" \in printed

\* the for loop of the batch has gone through its last iteration
BatchLoopDone ==
    /\ html_files # <<>>
    /\ browser # "none"
    /\ \/ pc = "batch_browser_close"
       \/ \E k \in 1..Len(trace) : trace[k].op = "browser.close"

\* requests for which browser.new_page() was called, in call order
Attempted ==
    LET np == SelectSeq(trace, LAMBDA e : e.op = "new_page")
    IN  [k \in 1..Len(np) |-> np[k].i]

\* a collaborator call made for request i raised
Raised(i) == \E k \in 1..Len(trace) : trace[k].i = i /\ ~trace[k].ok

Successes == { i \in 1..Len(outcomes) : outcomes[i].outcome = "Success" }

\* <stem>.pdf written out from the name alone
PdfName(name) == Append(SubSeq(name, 1, Len(name) - 1), "pdf")

\* ------------------------------------------------------------------ C1
\* C1 as stated: when the batch returns, the number of results it returns
\* equals the number of files it enumerated.
C1_ResultCountEqualsFileCount ==
    pc = "batch_returned" => Len(result) = Len(html_files)

\* C1 amended: once the loop of a batch is over, exactly one outcome has been
\* recorded per enumerated file, in order; the list the batch returns holds
\* exactly the destinations of the successes, each of which exists, so its
\* length is the number of successes and at most the number of files.
C1_OneOutcomePerFile ==
    /\ BatchLoopDone =>
         /\ Len(outcomes) = Len(html_files)
         /\ \A i \in 1..Len(outcomes) : outcomes[i].file = html_files[i]
    /\ pc = "batch_returned" =>
         /\ Len(outcomes) = Len(html_files)
         /\ Len(result) = Cardinality(Successes)
         /\ Len(result) <= Len(html_files)
         /\ Range(result) =
              { Append(call.output, PdfName(html_files[i][Len(html_files[i])])) :
                  i \in Successes }
         /\ \A k \in 1..Len(result) : result[k] \in files

C1_Witness ==
    /\ pc = "batch_returned"
    /\ Len(html_files) = 3
    /\ Len(result) = 2
    /\ outcomes[2].outcome = "Failure"

\* ------------------------------------------------------------------ C2
\* C2: in batch mode an exception raised for file i never aborts the batch:
\* requests are attempted in enumeration order, and when the loop is over
\* every enumerated file has been attempted and every file for which a
\* collaborator call raised is recorded as a failure (the others are not
\* touched by it).
C2_FailureNeverAborts ==
    html_files # <<>> =>
      /\ Attempted = [k \in 1..Len(Attempted) |-> k]
      /\ Len(Attempted) <= Len(html_files)
      /\ BatchLoopDone =>
           /\ Len(Attempted) = Len(html_files)
           /\ \A i \in 1..Len(html_files) :
                Raised(i) => outcomes[i].outcome = "Failure"
           /\ \A i \in 1..Len(html_files) :
                (~Raised(i) /\ BatchPdfOutputPath(call.output, html_files[i]) \in files)
                    => outcomes[i].outcome = "Success"

C2_Witness ==
    /\ BatchLoopDone
    /\ Len(html_files) = 3
    /\ Raised(2) /\ ~Raised(1) /\ ~Raised(3)
    /\ [i \in 1..3 |-> outcomes[i].outcome] = <<"Success", "Failure", "Success">>

\* ------------------------------------------------------------------ C3
\* C3: an invocation with an input and no check flag exits 0 if and only if
\* at least one PDF was generated.
C3_ExitZeroIffGenerated ==
    (Exited /\ args.input # None /\ ~args.check)
        => (exitCode = 0 <=> result # <<>>)


\* ------------------------------------------------------------------ C4
\* the input is a regular file with an .html suffix (any case): single-file mode
SingleFileMode == args.input # None /\ IsHtmlFile(args.input)

InputName == args.input[Len(args.input)]

\* paths handed to page.pdf so far
PdfPaths == { trace[k].path : k \in { j \in 1..Len(trace) : trace[j].op = "pdf" } }

AnyCaseHtml(name) == Len(name) >= 2 /\ Lower(name[Len(name)]) = "html"

\* every path handed to page.pdf is named <stem>.pdf after its source
DestinationsNormalized ==
    \A k \in 1..Len(trace) :
      trace[k].op = "pdf" =>
        LET src == IF SingleFileMode THEN args.input ELSE html_files[trace[k].i]
        IN  trace[k].path[Len(trace[k].path)] = PdfName(src[Len(src)])

\* a file given directly with an .html extension in any letter case is never
\* rejected as invalid, and once main is past its prerequisite checks the
\* destination of its request is determined
DirectHtmlGetsRequest ==
    (args.input \in files /\ AnyCaseHtml(InputName)) =>
      /\ "InvalidInput" \notin printed
      /\ (Exited /\ pdf_path = None) =>
           /\ ~PLAYWRIGHT_AVAILABLE \/ cli = "pdf_generator"
           /\ args.check \/ cli = "pdf_generator"
           /\ args.check \/ ~PLAYWRIGHT_AVAILABLE

\* C5 as stated: every source file whose extension is .html in any letter
\* case, given directly or found inside the input directory, gets a
\* conversion request, and its destination is named <stem>.pdf.
C5_AnyCaseHtmlConverted ==
    /\ BatchResolved =>
         \A k \in 1..Len(listing) :
           AnyCaseHtml(listing[k]) => Append(call.input, listing[k]) \in Range(html_files)
    /\ DirectHtmlGetsRequest
    /\ DestinationsNormalized

\* C5 amended: a file given directly with an .html extension in any letter
\* case gets a request; inside an input directory exactly the files that
\* Path.glob("*.html") matches get one, which on a case-sensitive platform are
\* the files whose extension is the lowercase .html; every destination is
\* named <stem>.pdf.
C5_GlobbedHtmlConverted ==
    /\ BatchResolved =>
         \A k \in 1..Len(listing) :
           (Append(call.input, listing[k]) \in Range(html_files))
             <=> /\ Len(listing[k]) >= 2
                 /\ IF caseInsensitiveGlob
                    THEN AnyCaseHtml(listing[k])
                    ELSE listing[k][Len(listing[k])] = "html"
    /\ DirectHtmlGetsRequest
    /\ DestinationsNormalized

C5_Witness ==
    /\ BatchResolved
    /\ ~caseInsensitiveGlob
    /\ listing = << <<"a", "html">>, <<"Report", "HTML">> >>
    /\ Len(html_files) = 1
    /\ \E k \in 1..Len(trace) :
         /\ trace[k].op = "pdf"
         /\ trace[k].path[Len(trace[k].path)] = <<"a", "pdf">>

C7_EmptyDirectoryFatal ==
    (/\ args.input = InputDir
     /\ ~args.check
     /\ Glob(listing, caseInsensitiveGlob) = <<>>)
        => /\ browser = "none"
           /\ trace = <<>>
           /\ Exited => exitCode = 1


\* ------------------------------------------------------------------ C8
\* nothing was converted nor set up for a conversion
NothingConverted ==
    browser = "none" /\ trace = <<>> /\ outcomes = <<>> /\ pdf_path = None

\* C8 as stated: with the check flag the invocation only verifies that the
\* collaborator is importable and exits 0 if it is and 1 otherwise, whether
\* or not an input is supplied; no conversion decides the exit code.
C8_CheckFlagOnlyChecks ==
    args.check =>
      /\ NothingConverted
      /\ Exited => exitCode = (IF PLAYWRIGHT_AVAILABLE THEN 0 ELSE 1)

\* C8 amended: as stated for pdf_generator.py --check-deps, and for
\* generate_pdfs.py --check when no input is supplied or the collaborator is
\* missing; generate_pdfs.py --check with an input and the collaborator
\* available goes on to resolve and convert the input, and then exits 0
\* exactly when a PDF was generated.
C8_CheckFlagPerCli ==
    args.check =>
      IF cli = "pdf_generator" \/ args.input = None \/ ~PLAYWRIGHT_AVAILABLE
      THEN /\ NothingConverted
           /\ Exited => exitCode = (IF PLAYWRIGHT_AVAILABLE THEN 0 ELSE 1)
      ELSE /\ "PlaywrightAvailable" \in printed \/ pc = "main"
           /\ Exited => (exitCode = 0 <=> result # <<>>)

C8_Witness ==
    /\ args.check
    /\ cli = "generate_pdfs"
    /\ SingleFileMode
    /\ PLAYWRIGHT_AVAILABLE
    /\ Exited
    /\ exitCode = 1
    /\ \E k \in 1..Len(trace) : trace[k].op = "goto" /\ ~trace[k].ok

\* ------------------------------------------------------------------ C9
\* C9: in batch mode the page opened for a request is closed before the
\* next request's page is opened and before the session is closed, on every
\* exit path of the request; at most one page is open at any time.
C9_PageClosedBeforeNext ==
    html_files # <<>> =>
      /\ Cardinality(pages) <= 1
      /\ pc \in {"batch_new_page", "batch_browser_close"} => pages = {}

\* ----------------------------------------------------------------- C10
\* positions in the trace of the calls of browser.close()
CloseCalls == { k \in 1..Len(trace) : trace[k].op = "browser.close" }

\* the conversion function that launched a browser is over
DriverDone ==
    /\ \E k \in 1..Len(trace) : trace[k].op = "launch" /\ trace[k].ok
    /\ pc \in {"conv_returned", "batch_returned", "raised", "exited"}

\* C10: in every run of a conversion function that launched a browser,
\* browser.close() is invoked exactly once, after the last request has
\* completed or failed and never before, even if a request throws.
C10_SessionClosedExactlyOnce ==
    /\ Cardinality(CloseCalls) <= 1
    /\ \A k \in CloseCalls :
         \A j \in (k + 1)..Len(trace) : trace[j].op = "stop"
    /\ DriverDone => Cardinality(CloseCalls) = 1


\* ----------------------------------------------------------------- C12
\* C12: when the rendering collaborator is not importable, every invocation
\* of either entry point with an input ends with exit code 1 and the install
\* instructions shown, and reports no file as converted.
C12_EngineMissingIsFatal ==
    (/\ ~PLAYWRIGHT_AVAILABLE
     /\ args.input # None
     /\ SingleFileMode \/ args.input = InputDir
     /\ Exited) =>
      /\ exitCode = 1
      /\ "InstallInstructions" \in printed
      /\ Successes = {}
      /\ result = <<>>


\* ----------------------------------------------------------------- C14
\* the directories that existed when the invocation started
InitialDirs ==
    {<<>>, TopDir} \cup (IF args.input = InputDir THEN {InputDir} ELSE {})

CreatedDirs == dirs \ InitialDirs

\* the output directory of the invocation: -o, or the sibling PDF directory
OutputDirOfRun ==
    IF args.output # None THEN args.output ELSE Append(TopDir, <<"PDF">>)

InputIsMissing == args.input = MissingPath

InputIsOtherFile == args.input \in files /\ ~AnyCaseHtml(InputName)

InputIsDirWithoutHtml ==
    args.input = InputDir /\ Glob(listing, caseInsensitiveGlob) = <<>>

\* C14 as stated: an invocation that fails at input resolution (nonexistent
\* path, existing file that is not an HTML file, directory with no *.html
\* file) creates no directory.
C14_FailedResolutionCreatesNothing ==
    (InputIsMissing \/ InputIsOtherFile \/ InputIsDirWithoutHtml)
        => CreatedDirs = {}

\* What the code does in these cases (checked, not part of C14): no request
\* is produced and nothing but the output directory is created.  No
\* directory is created for a nonexistent path, nor by pdf_generator.py for a
\* file that is not an HTML file.  generate_pdfs.py creates the output
\* directory for every existing input before it looks at its kind, and
\* batch_convert_directory_async creates it before it globs.
FailedResolutionCreatesOutputDirOnly ==
    (InputIsMissing \/ InputIsOtherFile \/ InputIsDirWithoutHtml) =>
      /\ trace = <<>> /\ outcomes = <<>> /\ pdf_path = None
      /\ CreatedDirs \subseteq {OutputDirOfRun}
      /\ InputIsMissing => CreatedDirs = {}
      /\ (InputIsOtherFile /\ cli = "pdf_generator") => CreatedDirs = {}
      /\ (InputIsOtherFile /\ "InvalidInput" \in printed /\ cli = "generate_pdfs")
            => CreatedDirs = {OutputDirOfRun}
      /\ (InputIsDirWithoutHtml /\ "NoHtmlFiles" \in printed)
            => CreatedDirs = {OutputDirOfRun}


\* ----------------------------------------------------------------- C11
\* C11: every request recorded as a success had its destination written by
\* the render call of the current run; a PDF left by an earlier run never
\* makes a request whose render wrote nothing count as a success.
C11_SuccessWasWritten ==
    IF SingleFileMode
    THEN Successes # {} => pdf_path \in written
    ELSE \A i \in Successes :
           Append(call.output, PdfName(html_files[i][Len(html_files[i])])) \in written


\* ----------------------------------------------------------------- C13
\* an interrupt was delivered while a batch was being processed
BatchInterrupted ==
    /\ html_files # <<>>
    /\ \E k \in 1..Len(trace) : trace[k].op = "KeyboardInterrupt"

\* C13 as stated: after an interrupt during a batch no conversion request
\* for a later file is started (nothing but the stop of the driver follows
\* the interrupt), and the process terminates with exit code 1.
C13_InterruptStopsBatch ==
    BatchInterrupted =>
      /\ \A k \in 1..Len(trace) :
           trace[k].op = "KeyboardInterrupt" =>
             \A j \in (k + 1)..Len(trace) : trace[j].op = "stop"
      /\ pc \in {"interrupted", "exited"}
      /\ Exited => exitCode = 1

\* C13 amended: after an interrupt during a batch no conversion request for
\* a later file is started and the loop is not continued; generate_pdfs.py
\* then exits with code 1, and pdf_generator.py, which has no handler, is
\* ended by the uncaught KeyboardInterrupt with a status that is not 0.
C13_InterruptStopsBatchPerCli ==
    BatchInterrupted =>
      /\ \A k \in 1..Len(trace) :
           trace[k].op = "KeyboardInterrupt" =>
             \A j \in (k + 1)..Len(trace) : trace[j].op = "stop"
      /\ pc \in {"interrupted", "exited"}
      /\ (Exited /\ cli = "generate_pdfs") =>
           exitCode = 1 /\ "InterruptedByUser" \in printed
      /\ (Exited /\ cli = "pdf_generator") => exitCode # 0

C13_Witness ==
    /\ BatchInterrupted
    /\ cli = "generate_pdfs"
    /\ Exited
    /\ exitCode = 1
    /\ Len(html_files) = 3
    /\ Len(outcomes) = 1
    /\ Attempted = <<1, 2>>

====
